---- MODULE Spec2Model ----
(***************************************************************************)
(* Model of the retry / rate-limit wrapper of news_fetcher.api.base        *)
(* (BaseAPIClient), and of the background task registry                    *)
(* (BackgroundTaskProcessor) and the bounded gather                        *)
(* (AsyncRequestClient.gather_with_concurrency) of                         *)
(* news_fetcher.utils.async_utils.                                         *)
(*                                                                         *)
(* Time is counted in ticks; TicksPerSecond ticks make one second, so the  *)
(* rate limiter's remainder (min_interval - elapsed) can be a fraction of  *)
(* the interval.                                                           *)
(***************************************************************************)
EXTENDS Integers, Sequences, FiniteSets, TLC

VARIABLES
    \* ---- BaseAPIClient (one client instance, one calling thread) ----
    max_retries,        \* self.max_retries
    retry_delay,        \* self.retry_delay (seconds)
    last_request_time,  \* self._last_request_time (ticks)
    now,                \* the clock read by time.time() (ticks)
    pc,                 \* position of the caller inside request_with_retries
    method,             \* "GET" / "POST" / "none": which wrapper made the call
    validator,          \* TRUE iff a validator was passed to the call
    nfail,              \* environment: how many leading attempts of this call fail
    current_time,       \* local of _rate_limit
    attempt,            \* loop variable of request_with_retries
    attempts,           \* history: network calls made by the current call
    slept,              \* history: sum of the backoff sleeps of the current call (ticks)
    responses,          \* history: the responses the current call received
    ret,                \* how the last call ended
    dispatch,           \* history: timestamp recorded by _rate_limit, one per call
    calls,              \* number of calls started
    stamps,             \* history: timestamp updates made by the current call
    \* ---- BackgroundTaskProcessor (callers and pool worker threads) ----
    tasks,              \* self.tasks: task id -> record
    task_counter,       \* self.task_counter
    lock,               \* self.lock: the caller holding it, or "free"
    futures,            \* the Future objects made by executor.submit, by identity
    work_queue,         \* the executor's queue of work items not yet taken
    caller,             \* each caller: position and locals of the call it is in
    allocated,          \* history: ids read from the counter, in order
    returned,           \* history: ids returned by submit_task, in order
    submits,            \* number of submit_task calls started
    max_workers,        \* max_workers given to ThreadPoolExecutor
    executor_shutdown,  \* the executor's _shutdown flag
    hook_runs,          \* history: per task id, the runs of _task_done_callback started
    \* ---- gather_with_concurrency (one call, on one event loop) ----
    concurrency,        \* the call's concurrency argument
    op_count,           \* how many awaitables the call was given
    semaphore,          \* the Semaphore's _value: tokens that are free
    sem_waiters,        \* the Semaphore's _waiters: suspended sem_tasks, in order
    op_state,           \* position of each sem_task
    op_result,          \* how each operation ended
    gather_pc,          \* "idle", "pending", "returned" or "raised"
    gather_result,      \* what gather handed its caller
    remaining,          \* children gather still waits for
    done_order,         \* history: operations in the order they ended
    \* ---- worker threads sharing one client instance ----
    thread,             \* each thread: position and locals inside _rate_limit
    \* ---- NewsFetcher.run (the headline pipeline) ----
    run_pc,             \* position of the caller inside run
    run_call,           \* the client's call count when run began to fetch
    headlines,          \* how get_top_headlines ended
    articles,           \* what fetch_articles returned
    run_result,         \* what run returned
    effects             \* history: what the current run saved, summarised, wrote

httpVars == <<max_retries, retry_delay, last_request_time, now, pc, method,
              validator, nfail, current_time, attempt, attempts, slept,
              responses, ret, dispatch, calls, stamps>>

bgVars == <<tasks, task_counter, lock, futures, work_queue, caller,
            allocated, returned, submits, max_workers, executor_shutdown,
            hook_runs>>

gatherVars == <<concurrency, op_count, semaphore, sem_waiters, op_state,
                op_result, gather_pc, gather_result, remaining, done_order>>

concVars == <<thread>>

pipeVars == <<run_pc, run_call, headlines, articles, run_result, effects>>

vars == <<httpVars, bgVars, gatherVars, concVars, pipeVars>>

----------------------------------------------------------------------------
\* Bounds of the model.
MaxRetriesBound == 2    \* max_retries ranges over 0..MaxRetriesBound
MaxDelay == 2           \* retry_delay ranges over 1..MaxDelay seconds
MaxCalls == 2           \* calls made on the client
MaxTime == 6            \* the clock ticks freely up to MaxTime
TicksPerSecond == 2     \* resolution of the clock
MaxTasks == 2           \* submit_task calls made on the registry
MaxWorkers == 2         \* max_workers ranges over 1..MaxWorkers
MaxLiveTasks == 1       \* submit_task calls made under fair scheduling
MaxOps == 3             \* awaitables given to gather_with_concurrency
MaxConcurrency == 2     \* concurrency ranges over 1..MaxConcurrency

\* _rate_limit(self, min_interval: float = 1.0), in ticks.
min_interval == 1 * TicksPerSecond

RECURSIVE Pow2(_)
Pow2(n) == IF n = 0 THEN 1 ELSE 2 * Pow2(n - 1)

----------------------------------------------------------------------------
(* What the downstream service can answer to one attempt.  conn = FALSE is *)
(* a connection error or timeout raised by session.request; otherwise the  *)
(* answer has an HTTP status and a body.                                   *)
Bodies == {"garbage", "valid1", "valid2", "invalid"}

Responses ==
    {[conn |-> FALSE, status |-> 0, body |-> "garbage"],
     [conn |-> TRUE, status |-> 500, body |-> "valid1"]}
    \cup {[conn |-> TRUE, status |-> 200, body |-> b] : b \in Bodies}

\* response.raise_for_status(): HTTPError unless the status is 2xx.
RaiseForStatus(resp) == ~(resp.status >= 200 /\ resp.status < 300)

\* response.json(): raises on a body that is not JSON.
JsonFails(resp) == resp.body = "garbage"

\* The validators of the API clients return False on a malformed payload.
ValidatorAccepts(data) == data \in {"valid1", "valid2"}

\* A try block whose validator test lost its `not`.
TryBlockInverted(resp, hasValidator) ==
    IF ~resp.conn THEN "RequestException"
    ELSE IF RaiseForStatus(resp) THEN "HTTPError"
    ELSE IF JsonFails(resp) THEN "JSONDecodeError"
    ELSE IF hasValidator /\ ValidatorAccepts(resp.body) THEN "ValueError"
    ELSE "ok"

(* The try block of one attempt: "ok" when it reaches `return data`, else  *)
(* the exception caught by `except (RequestException, ValueError)`.        *)
TryBlock(resp, hasValidator) ==
    IF ~resp.conn THEN "RequestException"
    ELSE IF RaiseForStatus(resp) THEN "HTTPError"
    ELSE IF JsonFails(resp) THEN "JSONDecodeError"
    ELSE IF hasValidator /\ ~ValidatorAccepts(resp.body) THEN "ValueError"
    ELSE "ok"

\* A backoff that starts at twice the delay.
BackoffDelayNextIndex(i) == retry_delay * Pow2(i + 1) * TicksPerSecond

\* backoff_delay = self.retry_delay * (2 ** attempt), in ticks.
BackoffDelay(i) == retry_delay * Pow2(i) * TicksPerSecond

\* A rate limiter that sleeps for the elapsed time, not for the remainder.
SleepTimeElapsed(elapsed) == elapsed

\* sleep_time = min_interval - elapsed
SleepTime(elapsed) == min_interval - elapsed

\* `if attempt < self.max_retries:`
AttemptsRemain(i) == i < max_retries

----------------------------------------------------------------------------
(* The environment's side of one attempt: an attempt fails when the        *)
(* connection fails, the status is not 2xx, the body is undecodable or a   *)
(* supplied validator rejects the decoded body.                            *)
FailingResponses(hasValidator) ==
    {r \in Responses :
        \/ ~r.conn
        \/ r.status # 200
        \/ r.body = "garbage"
        \/ (hasValidator /\ r.body = "invalid")}

SucceedingResponses(hasValidator) == Responses \ FailingResponses(hasValidator)

NoRet == [kind |-> "none_yet", value |-> "none"]

InitHttp ==
    /\ max_retries \in 0..MaxRetriesBound
    /\ retry_delay \in 1..MaxDelay
    /\ last_request_time = 0
    /\ now = min_interval
    /\ pc = "idle"
    /\ method = "none"
    /\ validator = FALSE
    /\ nfail = 0
    /\ current_time = 0
    /\ attempt = 0
    /\ attempts = 0
    /\ slept = 0
    /\ responses = <<>>
    /\ ret = NoRet
    /\ dispatch = <<>>
    /\ calls = 0
    /\ stamps = 0

\* Time passes between any two steps.
Tick ==
    /\ now < MaxTime
    /\ now' = now + 1
    /\ UNCHANGED <<max_retries, retry_delay, last_request_time, pc, method,
                   validator, nfail, current_time, attempt, attempts, slept,
                   responses, ret, dispatch, calls, stamps>>
    /\ UNCHANGED <<bgVars, gatherVars, concVars, pipeVars>>

(* Entry of request_with_retries through get() or post(): the wrappers     *)
(* pass their arguments through.  The environment fixes how many leading   *)
(* attempts of this call will fail.                                        *)
StartRequest(m, v, n) ==
    /\ pc \in {"idle", "done"}
    /\ calls < MaxCalls
    /\ calls' = calls + 1
    /\ method' = m
    /\ validator' = v
    /\ nfail' = n
    /\ attempt' = 0
    /\ attempts' = 0
    /\ slept' = 0
    /\ responses' = <<>>
    /\ ret' = NoRet
    /\ stamps' = 0
    /\ pc' = "rate_limit"
    /\ UNCHANGED <<max_retries, retry_delay, last_request_time, now,
                   current_time, dispatch>>
    /\ UNCHANGED <<bgVars, gatherVars, concVars, pipeVars>>

Get == \E v \in BOOLEAN, n \in 0..(MaxRetriesBound + 1) : StartRequest("GET", v, n)

Post == \E v \in BOOLEAN, n \in 0..(MaxRetriesBound + 1) : StartRequest("POST", v, n)

\* _rate_limit: current_time = time.time(); elapsed = current_time - last
RateLimitRead ==
    /\ pc = "rate_limit"
    /\ current_time' = now
    /\ pc' = IF now - last_request_time < min_interval THEN "rl_sleep" ELSE "rl_stamp"
    /\ UNCHANGED <<max_retries, retry_delay, last_request_time, now, method,
                   validator, nfail, attempt, attempts, slept, responses, ret,
                   dispatch, calls, stamps>>
    /\ UNCHANGED <<bgVars, gatherVars, concVars, pipeVars>>

\* time.sleep(sleep_time): the caller is blocked for sleep_time.
RateLimitSleep ==
    /\ pc = "rl_sleep"
    /\ now' = now + SleepTime(current_time - last_request_time)
    /\ pc' = "rl_stamp"
    /\ UNCHANGED <<max_retries, retry_delay, last_request_time, method,
                   validator, nfail, current_time, attempt, attempts, slept,
                   responses, ret, dispatch, calls, stamps>>
    /\ UNCHANGED <<bgVars, gatherVars, concVars, pipeVars>>

\* self._last_request_time = time.time(); then the loop starts at attempt 0.
RateLimitStamp ==
    /\ pc = "rl_stamp"
    /\ last_request_time' = now
    /\ dispatch' = Append(dispatch, now)
    /\ stamps' = stamps + 1
    /\ attempt' = 0
    /\ pc' = "attempt"
    /\ UNCHANGED <<max_retries, retry_delay, now, method, validator, nfail,
                   current_time, attempts, slept, responses, ret, calls>>
    /\ UNCHANGED <<bgVars, gatherVars, concVars, pipeVars>>

(* A loop body that surfaces a validator rejection at once, whatever the   *)
(* attempts that remain.                                                   *)
AttemptValidationFailFast ==
    /\ pc = "attempt"
    /\ \E resp \in (IF attempts < nfail THEN FailingResponses(validator)
                                        ELSE SucceedingResponses(validator)) :
        /\ responses' = Append(responses, resp)
        /\ attempts' = attempts + 1
        /\ IF TryBlock(resp, validator) = "ok"
           THEN /\ ret' = [kind |-> "payload", value |-> resp.body]
                /\ pc' = "done"
           ELSE IF AttemptsRemain(attempt) /\ TryBlock(resp, validator) # "ValueError"
           THEN /\ ret' = ret
                /\ pc' = "backoff"
           ELSE /\ ret' = [kind |-> "raised", value |-> TryBlock(resp, validator)]
                /\ pc' = "done"
    /\ UNCHANGED <<max_retries, retry_delay, last_request_time, now, method,
                   validator, nfail, current_time, attempt, slept, dispatch,
                   calls, stamps>>
    /\ UNCHANGED <<bgVars, gatherVars, concVars, pipeVars>>

(* One pass of the loop body: the network call, then either `return data`, *)
(* or the except clause, which goes on to the backoff sleep when attempts  *)
(* remain and re-raises otherwise.                                         *)
Attempt ==
    /\ pc = "attempt"
    /\ \E resp \in (IF attempts < nfail THEN FailingResponses(validator)
                                        ELSE SucceedingResponses(validator)) :
        /\ responses' = Append(responses, resp)
        /\ attempts' = attempts + 1
        /\ IF TryBlock(resp, validator) = "ok"
           THEN /\ ret' = [kind |-> "payload", value |-> resp.body]
                /\ pc' = "done"
           ELSE IF AttemptsRemain(attempt)
           THEN /\ ret' = ret
                /\ pc' = "backoff"
           ELSE /\ ret' = [kind |-> "raised", value |-> TryBlock(resp, validator)]
                /\ pc' = "done"
    /\ UNCHANGED <<max_retries, retry_delay, last_request_time, now, method,
                   validator, nfail, current_time, attempt, slept, dispatch,
                   calls, stamps>>
    /\ UNCHANGED <<bgVars, gatherVars, concVars, pipeVars>>

\* A backoff sleep after which the loop goes on to the next attempt.
BackoffRetries ==
    /\ pc = "backoff"
    /\ now' = now + BackoffDelay(attempt)
    /\ slept' = slept + BackoffDelay(attempt)
    /\ attempt' = attempt + 1
    /\ pc' = "attempt"
    /\ UNCHANGED <<max_retries, retry_delay, last_request_time, method,
                   validator, nfail, current_time, attempts, responses, ret,
                   dispatch, calls, stamps>>
    /\ UNCHANGED <<bgVars, gatherVars, concVars, pipeVars>>

\* time.sleep(backoff_delay) followed by `return None`.
Backoff ==
    /\ pc = "backoff"
    /\ now' = now + BackoffDelay(attempt)
    /\ slept' = slept + BackoffDelay(attempt)
    /\ ret' = [kind |-> "returned_none", value |-> "none"]
    /\ pc' = "done"
    /\ UNCHANGED <<max_retries, retry_delay, last_request_time, method,
                   validator, nfail, current_time, attempt, attempts,
                   responses, dispatch, calls, stamps>>
    /\ UNCHANGED <<bgVars, gatherVars, concVars, pipeVars>>

NextHttp ==
    \/ Tick
    \/ Get
    \/ Post
    \/ RateLimitRead
    \/ RateLimitSleep
    \/ RateLimitStamp
    \/ Attempt
    \/ Backoff

----------------------------------------------------------------------------
(* BackgroundTaskProcessor.  Callers are the threads that call submit_task, *)
(* get_task_status and wait_for_task; Workers are the threads of the       *)
(* ThreadPoolExecutor.  Every step is one statement (or one library call   *)
(* made under the library's own lock), so the threads interleave as the    *)
(* interpreter lets them.                                                  *)
Callers == {"c1", "c2"}
Submitter == "c1"           \* the thread that submits in SpecBg
Observer == "c2"            \* the thread that polls and waits in SpecBg
ArgIds == 0..MaxTasks       \* ids a caller may pass; MaxTasks is never issued
Terminal == {"completed", "failed"}

\* What a submitted work can do when it ends: return a value or raise.
Outcomes ==
    {[kind |-> "value", value |-> "r1"],
     [kind |-> "raise", value |-> "ZeroDivisionError"],
     [kind |-> "raise", value |-> "TimeoutError"]}

NoOutcome == [kind |-> "none", value |-> "None"]

\* str(e) of the exceptions a work raises.
Str(exc) == IF exc = "ZeroDivisionError" THEN "division by zero" ELSE "timed out"

NoSnap == [task_id |-> -1, status |-> "None", result |-> "None", error |-> "None"]

(* A caller that has made no call yet.  pc is the caller's position; op,   *)
(* task_id, timed, future, step and snap are the call's arguments and      *)
(* locals; kind is how the call ended; floor and prior are history: the    *)
(* largest id returned, and the terminal status already reported for the   *)
(* task, when the call began; wait is shutdown's argument, before the ids  *)
(* submit_task had returned when shutdown was called, and down whether the *)
(* executor was already shut down when submit_task was called.             *)
IdleCaller ==
    [pc |-> "idle", op |-> "none", task_id |-> -1, timed |-> FALSE,
     future |-> 0, step |-> 0, snap |-> NoSnap, floor |-> -1, prior |-> "None",
     kind |-> "none", wait |-> FALSE, before |-> {}, down |-> FALSE]

(* A Future just made by executor.submit, with its work item queued.       *)
(* state, outcome and callback are the Future's _state, _result/_exception *)
(* and _done_callbacks; wpc is the position of the pool thread that holds  *)
(* its work item ("queued" before a thread takes it, "released" once the   *)
(* thread is free again) and step the next write of the hook it runs.      *)
NewFuture ==
    [state |-> "PENDING", outcome |-> NoOutcome, callback |-> -1,
     wpc |-> "queued", step |-> 0]

\* A pool whose threads never count as taken.
NoneBusy == {}

\* The futures whose work item a pool thread is holding.
Busy == {f \in 1..Len(futures) : futures[f].wpc \in {"running", "callbacks", "callback"}}

\* The record submit_task stores for a new task.
NewTask(f) ==
    [future |-> f, status |-> "running", result |-> "None", error |-> "None"]

\* A completion hook whose failure branch also runs after the success branch.
CallbackWritesFallThrough(outcome) ==
    IF outcome.kind = "value"
    THEN <<<<"result", outcome.value>>, <<"status", "completed">>,
           <<"error", "None">>, <<"status", "failed">>>>
    ELSE <<<<"error", Str(outcome.value)>>, <<"status", "failed">>>>

\* A completion hook that stores what the work raised as the task's result.
CallbackWritesErrorAsResult(outcome) ==
    IF outcome.kind = "value"
    THEN <<<<"result", outcome.value>>, <<"status", "completed">>>>
    ELSE <<<<"result", Str(outcome.value)>>, <<"status", "failed">>>>

\* A completion hook that writes the status before the outcome.
CallbackWritesStatusFirst(outcome) ==
    IF outcome.kind = "value"
    THEN <<<<"status", "completed">>, <<"result", outcome.value>>>>
    ELSE <<<<"status", "failed">>, <<"error", Str(outcome.value)>>>>

(* _task_done_callback: the writes it makes to self.tasks[task_id], in     *)
(* order, for the outcome future.result() returns or raises.               *)
CallbackWrites(outcome) ==
    IF outcome.kind = "value"
    THEN <<<<"result", outcome.value>>, <<"status", "completed">>>>
    ELSE <<<<"error", Str(outcome.value)>>, <<"status", "failed">>>>

\* self.tasks[task_id][field] = value
WriteField(t, w) == [tasks EXCEPT ![t] = [@ EXCEPT ![w[1]] = w[2]]]

\* A lock that anyone can take while it is held.
LockAlwaysFree == TRUE

\* `with self.lock:` can be entered.
LockFree == lock = "free"

MaxOf(S) == IF S = {} THEN -1 ELSE CHOOSE x \in S : \A y \in S : y <= x

Range(q) == {q[i] : i \in 1..Len(q)}

HttpIdle ==
    /\ InitHttp
    /\ max_retries = 0
    /\ retry_delay = 1

BgIdle ==
    /\ tasks = <<>>
    /\ task_counter = 0
    /\ lock = "free"
    /\ futures = <<>>
    /\ work_queue = <<>>
    /\ caller = [c \in Callers |-> IdleCaller]
    /\ allocated = <<>>
    /\ returned = <<>>
    /\ submits = 0
    /\ executor_shutdown = FALSE
    /\ hook_runs = <<>>

\* No gather_with_concurrency call has been made.
GatherIdle ==
    /\ concurrency = 0
    /\ op_count = 0
    /\ semaphore = 0
    /\ sem_waiters = <<>>
    /\ op_state = <<>>
    /\ op_result = <<>>
    /\ gather_pc = "idle"
    /\ gather_result = <<>>
    /\ remaining = 0
    /\ done_order = <<>>

\* The threads that call the shared client: the pool's worker threads.
Threads == 1..MaxWorkers

IdleThread == [pc |-> "idle", current_time |-> 0, elapsed |-> 0, wake |-> 0]

\* No thread is inside a call of the shared client.
ConcIdle ==
    /\ thread = [t \in Threads |-> IdleThread]

NoHeadlines == [kind |-> "none", value |-> <<>>]

NoRunResult == [kind |-> "none", value |-> <<>>]

\* NewsFetcher.run has not been called.
PipeIdle ==
    /\ run_pc = "idle"
    /\ run_call = 0
    /\ headlines = NoHeadlines
    /\ articles = <<>>
    /\ run_result = NoRunResult
    /\ effects = {}

\* BackgroundTaskProcessor(max_workers), with everything else left alone.
InitBg ==
    /\ HttpIdle
    /\ BgIdle
    /\ GatherIdle
    /\ ConcIdle
    /\ PipeIdle
    /\ max_workers \in 1..MaxWorkers

InitClient ==
    /\ InitHttp
    /\ BgIdle
    /\ GatherIdle
    /\ ConcIdle
    /\ PipeIdle
    /\ max_workers = MaxWorkers

SpecHttp == InitClient /\ [][NextHttp]_vars

\* ---- submit_task ----

\* A caller enters submit_task.
SubmitTask(c) ==
    /\ caller[c].pc \in {"idle", "done"}
    /\ submits < MaxTasks
    /\ submits' = submits + 1
    /\ caller' = [caller EXCEPT ![c] =
                    [IdleCaller EXCEPT !.pc = "s_lock", !.op = "submit",
                                       !.floor = MaxOf(Range(returned)),
                                       !.down = executor_shutdown]]
    /\ UNCHANGED <<tasks, task_counter, lock, futures, work_queue, allocated,
                   returned, max_workers, executor_shutdown, hook_runs>>
    /\ UNCHANGED <<httpVars, gatherVars, concVars, pipeVars>>

\* with self.lock:
SubmitAcquire(c) ==
    /\ caller[c].pc = "s_lock"
    /\ LockFree
    /\ lock' = c
    /\ caller' = [caller EXCEPT ![c].pc = "s_read"]
    /\ UNCHANGED <<tasks, task_counter, futures, work_queue, allocated,
                   returned, submits, max_workers, executor_shutdown,
                   hook_runs>>
    /\ UNCHANGED <<httpVars, gatherVars, concVars, pipeVars>>

\* task_id = self.task_counter
SubmitRead(c) ==
    /\ caller[c].pc = "s_read"
    /\ allocated' = Append(allocated, task_counter)
    /\ caller' = [caller EXCEPT ![c].task_id = task_counter, ![c].pc = "s_incr"]
    /\ UNCHANGED <<tasks, task_counter, lock, futures, work_queue, returned,
                   submits, max_workers, executor_shutdown, hook_runs>>
    /\ UNCHANGED <<httpVars, gatherVars, concVars, pipeVars>>

\* A locked block that still holds the lock when it is left.
SubmitIncrementKeepsLock(c) ==
    /\ caller[c].pc = "s_incr"
    /\ task_counter' = task_counter + 1
    /\ caller' = [caller EXCEPT ![c].pc = "s_exec"]
    /\ UNCHANGED <<tasks, lock, futures, work_queue, allocated, returned,
                   submits, max_workers, executor_shutdown, hook_runs>>
    /\ UNCHANGED <<httpVars, gatherVars, concVars, pipeVars>>

\* self.task_counter += 1, and the lock is released on leaving the block.
SubmitIncrement(c) ==
    /\ caller[c].pc = "s_incr"
    /\ task_counter' = task_counter + 1
    /\ lock' = "free"
    /\ caller' = [caller EXCEPT ![c].pc = "s_exec"]
    /\ UNCHANGED <<tasks, futures, work_queue, allocated, returned, submits,
                   max_workers, executor_shutdown, hook_runs>>
    /\ UNCHANGED <<httpVars, gatherVars, concVars, pipeVars>>

(* future = self.executor.submit(func, *args, **kwargs): the executor      *)
(* makes a Future and queues its work item, or raises RuntimeError once it *)
(* has been shut down.                                                     *)
SubmitExecutor(c) ==
    /\ caller[c].pc = "s_exec"
    /\ IF executor_shutdown
       THEN /\ caller' = [caller EXCEPT ![c].kind = "RuntimeError", ![c].pc = "done"]
            /\ UNCHANGED <<futures, work_queue>>
       ELSE /\ futures' = Append(futures, NewFuture)
            /\ work_queue' = Append(work_queue, Len(futures) + 1)
            /\ caller' = [caller EXCEPT ![c].future = Len(futures) + 1,
                                        ![c].pc = "s_store"]
    /\ UNCHANGED <<tasks, task_counter, lock, allocated, returned, submits,
                   max_workers, executor_shutdown, hook_runs>>
    /\ UNCHANGED <<httpVars, gatherVars, concVars, pipeVars>>

\* self.tasks[task_id] = {"future": future, "status": "running", ...}
SubmitStore(c) ==
    /\ caller[c].pc = "s_store"
    /\ tasks' = (caller[c].task_id :> NewTask(caller[c].future)) @@ tasks
    /\ hook_runs' = (caller[c].task_id :> 0) @@ hook_runs
    /\ caller' = [caller EXCEPT ![c].pc = "s_addcb"]
    /\ UNCHANGED <<task_counter, lock, futures, work_queue, allocated,
                   returned, submits, max_workers, executor_shutdown>>
    /\ UNCHANGED <<httpVars, gatherVars, concVars, pipeVars>>

(* An add_done_callback that, on a finished future, runs the hook and also *)
(* leaves it with the future.                                              *)
SubmitAddCallbackAlwaysRegisters(c) ==
    /\ caller[c].pc = "s_addcb"
    /\ futures' = [futures EXCEPT ![caller[c].future].callback = caller[c].task_id]
    /\ IF futures[caller[c].future].state = "FINISHED"
       THEN /\ tasks' = WriteField(caller[c].task_id,
                                   CallbackWrites(futures[caller[c].future].outcome)[1])
            /\ hook_runs' = [hook_runs EXCEPT ![caller[c].task_id] = @ + 1]
            /\ caller' = [caller EXCEPT ![c].step = 2, ![c].pc = "s_callback"]
       ELSE /\ caller' = [caller EXCEPT ![c].pc = "s_return"]
            /\ UNCHANGED <<tasks, hook_runs>>
    /\ UNCHANGED <<task_counter, lock, work_queue, allocated, returned,
                   submits, max_workers, executor_shutdown>>
    /\ UNCHANGED <<httpVars, gatherVars, concVars, pipeVars>>

(* future.add_done_callback(...): a future that is not finished keeps the  *)
(* hook for its worker to call; on a finished future the hook runs at once *)
(* in the submitting thread, and this step is its first write.             *)
SubmitAddCallback(c) ==
    /\ caller[c].pc = "s_addcb"
    /\ IF futures[caller[c].future].state = "FINISHED"
       THEN /\ tasks' = WriteField(caller[c].task_id,
                                   CallbackWrites(futures[caller[c].future].outcome)[1])
            /\ hook_runs' = [hook_runs EXCEPT ![caller[c].task_id] = @ + 1]
            /\ caller' = [caller EXCEPT ![c].step = 2, ![c].pc = "s_callback"]
            /\ futures' = futures
       ELSE /\ futures' = [futures EXCEPT ![caller[c].future].callback =
                                             caller[c].task_id]
            /\ caller' = [caller EXCEPT ![c].pc = "s_return"]
            /\ UNCHANGED <<tasks, hook_runs>>
    /\ UNCHANGED <<task_counter, lock, work_queue, allocated, returned,
                   submits, max_workers, executor_shutdown>>
    /\ UNCHANGED <<httpVars, gatherVars, concVars, pipeVars>>

\* A further write of _task_done_callback, run by the submitting thread.
SubmitCallbackWrite(c) ==
    /\ caller[c].pc = "s_callback"
    /\ LET ws == CallbackWrites(futures[caller[c].future].outcome) IN
        /\ tasks' = WriteField(caller[c].task_id, ws[caller[c].step])
        /\ caller' = IF caller[c].step < Len(ws)
                     THEN [caller EXCEPT ![c].step = @ + 1]
                     ELSE [caller EXCEPT ![c].step = 0, ![c].pc = "s_return"]
    /\ UNCHANGED <<task_counter, lock, futures, work_queue, allocated,
                   returned, submits, max_workers, executor_shutdown,
                   hook_runs>>
    /\ UNCHANGED <<httpVars, gatherVars, concVars, pipeVars>>

\* return task_id
SubmitReturn(c) ==
    /\ caller[c].pc = "s_return"
    /\ returned' = Append(returned, caller[c].task_id)
    /\ caller' = [caller EXCEPT ![c].kind = "id", ![c].pc = "done"]
    /\ UNCHANGED <<tasks, task_counter, lock, futures, work_queue, allocated,
                   submits, max_workers, executor_shutdown, hook_runs>>
    /\ UNCHANGED <<httpVars, gatherVars, concVars, pipeVars>>

\* ---- the pool's worker threads ----

(* A pool thread takes the next work item and starts running it; the pool  *)
(* has at most max_workers threads.                                        *)
WorkerTake ==
    /\ work_queue # <<>>
    /\ Cardinality(Busy) < max_workers
    /\ work_queue' = Tail(work_queue)
    /\ futures' = [futures EXCEPT ![Head(work_queue)].state = "RUNNING",
                                  ![Head(work_queue)].wpc = "running"]
    /\ UNCHANGED <<tasks, task_counter, lock, caller, allocated, returned,
                   submits, max_workers, executor_shutdown, hook_runs>>
    /\ UNCHANGED <<httpVars, gatherVars, concVars, pipeVars>>

(* The work ends; future.set_result / set_exception stores the outcome,    *)
(* marks the future FINISHED and wakes the threads blocked in result().    *)
WorkerFinish(f) ==
    /\ futures[f].wpc = "running"
    /\ \E o \in Outcomes :
        futures' = [futures EXCEPT ![f].state = "FINISHED", ![f].outcome = o,
                                   ![f].wpc = "callbacks"]
    /\ UNCHANGED <<tasks, task_counter, lock, work_queue, caller, allocated,
                   returned, submits, max_workers, executor_shutdown,
                   hook_runs>>
    /\ UNCHANGED <<httpVars, gatherVars, concVars, pipeVars>>

(* future._invoke_callbacks(): the worker calls the hook, if one was       *)
(* added; this step is the hook's first write.                             *)
WorkerInvokeCallbacks(f) ==
    /\ futures[f].wpc = "callbacks"
    /\ IF futures[f].callback = -1
       THEN /\ futures' = [futures EXCEPT ![f].wpc = "released"]
            /\ UNCHANGED <<tasks, hook_runs>>
       ELSE /\ tasks' = WriteField(futures[f].callback,
                                   CallbackWrites(futures[f].outcome)[1])
            /\ hook_runs' = [hook_runs EXCEPT ![futures[f].callback] = @ + 1]
            /\ futures' = [futures EXCEPT ![f].wpc = "callback", ![f].step = 2]
    /\ UNCHANGED <<task_counter, lock, work_queue, caller, allocated,
                   returned, submits, max_workers, executor_shutdown>>
    /\ UNCHANGED <<httpVars, gatherVars, concVars, pipeVars>>

\* A further write of _task_done_callback, run by the worker thread.
WorkerCallbackWrite(f) ==
    /\ futures[f].wpc = "callback"
    /\ LET ws == CallbackWrites(futures[f].outcome) IN
        /\ tasks' = WriteField(futures[f].callback, ws[futures[f].step])
        /\ futures' = IF futures[f].step < Len(ws)
                      THEN [futures EXCEPT ![f].step = @ + 1]
                      ELSE [futures EXCEPT ![f].step = 0, ![f].wpc = "released"]
    /\ UNCHANGED <<task_counter, lock, work_queue, caller, allocated,
                   returned, submits, max_workers, executor_shutdown,
                   hook_runs>>
    /\ UNCHANGED <<httpVars, gatherVars, concVars, pipeVars>>

\* ---- get_task_status ----

\* The callers whose finished call returned a terminal snapshot of task id.
SawTerminal(id) ==
    {d \in Callers : /\ caller[d].pc = "done"
                     /\ caller[d].kind = "snapshot"
                     /\ caller[d].snap.task_id = id
                     /\ caller[d].snap.status \in Terminal}

\* The terminal status already reported for task id, if any.
Observed(id) ==
    IF SawTerminal(id) = {} THEN "None"
    ELSE caller[CHOOSE d \in SawTerminal(id) : TRUE].snap.status

\* A get_task_status that makes a record for an id it does not know.
GetTaskStatusCreates(c) ==
    /\ caller[c].pc \in {"idle", "done"}
    /\ \E id \in ArgIds :
        /\ tasks' = IF id \in DOMAIN tasks THEN tasks ELSE (id :> NewTask(0)) @@ tasks
        /\ caller' = [caller EXCEPT ![c] =
                        [IdleCaller EXCEPT !.pc = "g_status", !.op = "get_status",
                                           !.task_id = id, !.prior = Observed(id)]]
    /\ UNCHANGED <<task_counter, lock, futures, work_queue, allocated,
                   returned, submits, max_workers, executor_shutdown,
                   hook_runs>>
    /\ UNCHANGED <<httpVars, gatherVars, concVars, pipeVars>>

(* Entry of get_task_status: `if task_id not in self.tasks: raise          *)
(* KeyError`, else task = self.tasks[task_id].                             *)
GetTaskStatus(c) ==
    /\ caller[c].pc \in {"idle", "done"}
    /\ \E id \in ArgIds :
        caller' = [caller EXCEPT ![c] =
                     IF id \in DOMAIN tasks
                     THEN [IdleCaller EXCEPT !.pc = "g_status", !.op = "get_status",
                                            !.task_id = id, !.prior = Observed(id)]
                     ELSE [IdleCaller EXCEPT !.pc = "done", !.op = "get_status",
                                            !.task_id = id, !.kind = "NotFound"]]
    /\ UNCHANGED <<tasks, task_counter, lock, futures, work_queue, allocated,
                   returned, submits, max_workers, executor_shutdown,
                   hook_runs>>
    /\ UNCHANGED <<httpVars, gatherVars, concVars, pipeVars>>

\* "task_id": task_id, "status": task["status"],
GetReadStatus(c) ==
    /\ caller[c].pc = "g_status"
    /\ caller' = [caller EXCEPT
                    ![c].snap = [NoSnap EXCEPT !.task_id = caller[c].task_id,
                                               !.status = tasks[caller[c].task_id].status],
                    ![c].pc = "g_result"]
    /\ UNCHANGED <<tasks, task_counter, lock, futures, work_queue, allocated,
                   returned, submits, max_workers, executor_shutdown,
                   hook_runs>>
    /\ UNCHANGED <<httpVars, gatherVars, concVars, pipeVars>>

\* "result": task["result"] if task["status"] == "completed" else None,
GetReadResult(c) ==
    /\ caller[c].pc = "g_result"
    /\ caller' = [caller EXCEPT
                    ![c].snap.result = IF tasks[caller[c].task_id].status = "completed"
                                       THEN tasks[caller[c].task_id].result
                                       ELSE "None",
                    ![c].pc = "g_error"]
    /\ UNCHANGED <<tasks, task_counter, lock, futures, work_queue, allocated,
                   returned, submits, max_workers, executor_shutdown,
                   hook_runs>>
    /\ UNCHANGED <<httpVars, gatherVars, concVars, pipeVars>>

\* "error": task["error"] if task["status"] == "failed" else None; return.
GetReadError(c) ==
    /\ caller[c].pc = "g_error"
    /\ caller' = [caller EXCEPT
                    ![c].snap.error = IF tasks[caller[c].task_id].status = "failed"
                                      THEN tasks[caller[c].task_id].error
                                      ELSE "None",
                    ![c].kind = "snapshot",
                    ![c].pc = "done"]
    /\ UNCHANGED <<tasks, task_counter, lock, futures, work_queue, allocated,
                   returned, submits, max_workers, executor_shutdown,
                   hook_runs>>
    /\ UNCHANGED <<httpVars, gatherVars, concVars, pipeVars>>

\* ---- wait_for_task ----

(* Entry of wait_for_task: KeyError for an unknown id, else                *)
(* future = self.tasks[task_id]["future"].                                 *)
WaitForTask(c) ==
    /\ caller[c].pc \in {"idle", "done"}
    /\ \E id \in ArgIds, tmo \in BOOLEAN :
        caller' = [caller EXCEPT ![c] =
                     IF id \in DOMAIN tasks
                     THEN [IdleCaller EXCEPT !.pc = "w_result", !.op = "wait",
                                            !.task_id = id, !.timed = tmo,
                                            !.future = tasks[id].future]
                     ELSE [IdleCaller EXCEPT !.pc = "done", !.op = "wait",
                                            !.task_id = id, !.timed = tmo,
                                            !.kind = "NotFound"]]
    /\ UNCHANGED <<tasks, task_counter, lock, futures, work_queue, allocated,
                   returned, submits, max_workers, executor_shutdown,
                   hook_runs>>
    /\ UNCHANGED <<httpVars, gatherVars, concVars, pipeVars>>

(* future.result(timeout) on a finished future: it returns the work's      *)
(* value, and wait_for_task goes on to get_task_status; or it raises the   *)
(* work's exception, which `except TimeoutError` turns into the wait's own *)
(* TimeoutError when it is one and lets through otherwise.                 *)
WaitFutureDone(c) ==
    /\ caller[c].pc = "w_result"
    /\ futures[caller[c].future].state = "FINISHED"
    /\ LET o == futures[caller[c].future].outcome IN
        caller' = IF o.kind = "value"
                  THEN [caller EXCEPT ![c].pc = "g_status",
                                      ![c].prior = Observed(caller[c].task_id)]
                  ELSE [caller EXCEPT
                          ![c].kind = IF o.value = "TimeoutError"
                                      THEN "DeadlineExceeded" ELSE "WorkException",
                          ![c].pc = "done"]
    /\ UNCHANGED <<tasks, task_counter, lock, futures, work_queue, allocated,
                   returned, submits, max_workers, executor_shutdown,
                   hook_runs>>
    /\ UNCHANGED <<httpVars, gatherVars, concVars, pipeVars>>

\* A timeout that also cancels the future it waited on.
WaitTimeoutCancels(c) ==
    /\ caller[c].pc = "w_result"
    /\ caller[c].timed
    /\ futures[caller[c].future].state # "FINISHED"
    /\ futures' = [futures EXCEPT ![caller[c].future].state = "CANCELLED"]
    /\ caller' = [caller EXCEPT ![c].kind = "DeadlineExceeded", ![c].pc = "done"]
    /\ UNCHANGED <<tasks, task_counter, lock, work_queue, allocated, returned,
                   submits, max_workers, executor_shutdown, hook_runs>>
    /\ UNCHANGED <<httpVars, gatherVars, concVars, pipeVars>>

\* The timeout of future.result(timeout) elapses on an unfinished future.
WaitTimeout(c) ==
    /\ caller[c].pc = "w_result"
    /\ caller[c].timed
    /\ futures[caller[c].future].state # "FINISHED"
    /\ caller' = [caller EXCEPT ![c].kind = "DeadlineExceeded", ![c].pc = "done"]
    /\ UNCHANGED <<tasks, task_counter, lock, futures, work_queue, allocated,
                   returned, submits, max_workers, executor_shutdown,
                   hook_runs>>
    /\ UNCHANGED <<httpVars, gatherVars, concVars, pipeVars>>

\* ---- shutdown ----

\* A pool whose queue is empty, whatever its threads are doing.
QueueDrained == work_queue = <<>>

(* Every pool thread has returned: a thread returns when it finds the      *)
(* shutdown marker, which lies behind every work item queued before it.    *)
AllThreadsExited == work_queue = <<>> /\ Busy = {}

\* A shutdown that also drops the work items nobody has taken yet.
ShutdownCancelsQueued(c) ==
    /\ caller[c].pc \in {"idle", "done"}
    /\ executor_shutdown' = TRUE
    /\ work_queue' = <<>>
    /\ \E w \in BOOLEAN :
        caller' = [caller EXCEPT ![c] =
                     [IdleCaller EXCEPT !.op = "shutdown", !.wait = w,
                                        !.before = Range(returned),
                                        !.pc = IF w THEN "sd_join" ELSE "done",
                                        !.kind = IF w THEN "none" ELSE "returned"]]
    /\ UNCHANGED <<tasks, task_counter, lock, futures, allocated, returned,
                   submits, max_workers, hook_runs>>
    /\ UNCHANGED <<httpVars, gatherVars, concVars, pipeVars>>

(* self.executor.shutdown(wait=wait): the executor sets its flag and wakes *)
(* its threads; with wait false the call returns at once.                  *)
Shutdown(c) ==
    /\ caller[c].pc \in {"idle", "done"}
    /\ executor_shutdown' = TRUE
    /\ \E w \in BOOLEAN :
        caller' = [caller EXCEPT ![c] =
                     [IdleCaller EXCEPT !.op = "shutdown", !.wait = w,
                                        !.before = Range(returned),
                                        !.pc = IF w THEN "sd_join" ELSE "done",
                                        !.kind = IF w THEN "none" ELSE "returned"]]
    /\ UNCHANGED <<tasks, task_counter, lock, futures, work_queue, allocated,
                   returned, submits, max_workers, hook_runs>>
    /\ UNCHANGED <<httpVars, gatherVars, concVars, pipeVars>>

\* shutdown(wait=True) returns once every pool thread has been joined.
ShutdownJoin(c) ==
    /\ caller[c].pc = "sd_join"
    /\ AllThreadsExited
    /\ caller' = [caller EXCEPT ![c].kind = "returned", ![c].pc = "done"]
    /\ UNCHANGED <<tasks, task_counter, lock, futures, work_queue, allocated,
                   returned, submits, max_workers, executor_shutdown,
                   hook_runs>>
    /\ UNCHANGED <<httpVars, gatherVars, concVars, pipeVars>>

\* The steps of the pool's threads.
NextWorkers ==
    \/ WorkerTake
    \/ \E f \in 1..Len(futures) : WorkerFinish(f)
    \/ \E f \in 1..Len(futures) : WorkerInvokeCallbacks(f)
    \/ \E f \in 1..Len(futures) : WorkerCallbackWrite(f)

\* The steps inside submit_task.
NextSubmitSteps ==
    \/ \E c \in Callers : SubmitAcquire(c)
    \/ \E c \in Callers : SubmitRead(c)
    \/ \E c \in Callers : SubmitIncrement(c)
    \/ \E c \in Callers : SubmitExecutor(c)
    \/ \E c \in Callers : SubmitStore(c)
    \/ \E c \in Callers : SubmitAddCallback(c)
    \/ \E c \in Callers : SubmitCallbackWrite(c)
    \/ \E c \in Callers : SubmitReturn(c)

(* One thread submits tasks while another polls and waits on any id, and   *)
(* the pool runs the works.                                                *)
NextBg ==
    \/ SubmitTask(Submitter)
    \/ NextSubmitSteps
    \/ NextWorkers
    \/ GetTaskStatus(Observer)
    \/ GetReadStatus(Observer)
    \/ GetReadResult(Observer)
    \/ GetReadError(Observer)
    \/ WaitForTask(Observer)
    \/ WaitFutureDone(Observer)
    \/ WaitTimeout(Observer)

SpecBg == InitBg /\ [][NextBg]_vars

\* Every caller submits tasks, and the pool runs the works.
NextSubmit ==
    \/ \E c \in Callers : SubmitTask(c)
    \/ NextSubmitSteps
    \/ NextWorkers

SpecSubmit == InitBg /\ [][NextSubmit]_vars

(* Scheduling: a pool thread that can step does step and every work ends;  *)
(* a thread inside submit_task, get_task_status or wait_for_task keeps     *)
(* running.  Nothing makes a caller begin a call.                          *)
FairWorkers == WF_vars(NextWorkers)

FairSubmitSteps == WF_vars(NextSubmitSteps)

FairObserverSteps ==
    WF_vars(\/ GetReadStatus(Observer)
            \/ GetReadResult(Observer)
            \/ GetReadError(Observer)
            \/ WaitFutureDone(Observer)
            \/ WaitTimeout(Observer))

(* The registry of SpecBg with MaxLiveTasks submissions, under fair         *)
(* scheduling.                                                             *)
NextLive ==
    \/ submits < MaxLiveTasks /\ SubmitTask(Submitter)
    \/ NextSubmitSteps
    \/ NextWorkers
    \/ GetTaskStatus(Observer)
    \/ GetReadStatus(Observer)
    \/ GetReadResult(Observer)
    \/ GetReadError(Observer)
    \/ WaitForTask(Observer)
    \/ WaitFutureDone(Observer)
    \/ WaitTimeout(Observer)

SpecBgFair ==
    /\ InitBg
    /\ [][NextLive]_vars
    /\ FairWorkers
    /\ FairSubmitSteps
    /\ FairObserverSteps

(* Every caller submits to a pool of one thread; the threads inside        *)
(* submit_task keep running, but nothing is assumed of the pool: a work    *)
(* may run forever.                                                        *)
InitOneWorker == InitBg /\ max_workers = 1

SpecSubmitFair == InitOneWorker /\ [][NextSubmit]_vars /\ FairSubmitSteps

\* One thread submits tasks while another shuts the executor down.
NextShutdown ==
    \/ SubmitTask(Submitter)
    \/ NextSubmitSteps
    \/ NextWorkers
    \/ Shutdown(Observer)
    \/ ShutdownJoin(Observer)

SpecShutdown == InitBg /\ [][NextShutdown]_vars

SpecShutdownFair == SpecShutdown /\ FairWorkers /\ FairSubmitSteps

----------------------------------------------------------------------------
(* AsyncRequestClient.gather_with_concurrency.  The event loop runs one    *)
(* callback at a time, so every step below is atomic: a sem_task runs from *)
(* one suspension point to the next.                                       *)

\* What the i-th operation returns, and what it raises, when it ends.
OpValue(i) == i

OpError(i) == 0 - i

NoOpResult == [kind |-> "none", value |-> 0]

\* The outcomes of operation i.
OpOutcomes(i) ==
    {[kind |-> "value", value |-> OpValue(i)],
     [kind |-> "raise", value |-> OpError(i)]}

\* The sem_tasks that hold a token of the semaphore.
Holding == {i \in 1..op_count : op_state[i] \in {"admitted", "settled"}}

\* The operations that were admitted and have not ended.
InFlight == {i \in 1..op_count : op_state[i] = "admitted"}

\* A semaphore that lets everyone in.
TokenAlwaysFree == TRUE

\* Semaphore.acquire() returns at once: a token is free and nobody is queued.
TokenFree == semaphore > 0 /\ sem_waiters = <<>>

\* The values of the operations, in the order they ended.
ResultsInCompletionOrder ==
    [k \in 1..op_count |-> op_result[done_order[k]].value]

\* asyncio.gather's result: the children's results, in the children's order.
GatherResults == [i \in 1..op_count |-> op_result[i].value]

(* gather_with_concurrency(concurrency, *tasks): the semaphore is made and *)
(* gather wraps one sem_task per awaitable; with no awaitable gather is    *)
(* done at once with an empty list.                                        *)
GatherWithConcurrency(k, n) ==
    /\ gather_pc = "idle"
    /\ concurrency' = k
    /\ op_count' = n
    /\ semaphore' = k
    /\ op_state' = [i \in 1..n |-> "created"]
    /\ op_result' = [i \in 1..n |-> NoOpResult]
    /\ remaining' = n
    /\ gather_pc' = IF n = 0 THEN "returned" ELSE "pending"
    /\ UNCHANGED <<sem_waiters, gather_result, done_order>>
    /\ UNCHANGED <<httpVars, bgVars, concVars, pipeVars>>

(* sem_task(i) starts, the sem_tasks in the order gather made them:        *)
(* `async with semaphore` takes a token or suspends the sem_task.          *)
SemTaskStart(i) ==
    /\ op_state[i] = "created"
    /\ \A j \in 1..(i - 1) : op_state[j] # "created"
    /\ IF TokenFree
       THEN /\ semaphore' = semaphore - 1
            /\ op_state' = [op_state EXCEPT ![i] = "admitted"]
            /\ UNCHANGED sem_waiters
       ELSE /\ sem_waiters' = Append(sem_waiters, i)
            /\ op_state' = [op_state EXCEPT ![i] = "waiting"]
            /\ UNCHANGED semaphore
    /\ UNCHANGED <<concurrency, op_count, op_result, gather_pc, gather_result,
                   remaining, done_order>>
    /\ UNCHANGED <<httpVars, bgVars, concVars, pipeVars>>

\* The first suspended sem_task is woken and takes the token that was freed.
SemTaskWake(i) ==
    /\ sem_waiters # <<>>
    /\ Head(sem_waiters) = i
    /\ semaphore > 0
    /\ semaphore' = semaphore - 1
    /\ sem_waiters' = Tail(sem_waiters)
    /\ op_state' = [op_state EXCEPT ![i] = "admitted"]
    /\ UNCHANGED <<concurrency, op_count, op_result, gather_pc, gather_result,
                   remaining, done_order>>
    /\ UNCHANGED <<httpVars, bgVars, concVars, pipeVars>>

\* `await task`: the operation ends, with a value or with an exception.
OpSettle(i) ==
    /\ op_state[i] = "admitted"
    /\ \E o \in OpOutcomes(i) : op_result' = [op_result EXCEPT ![i] = o]
    /\ op_state' = [op_state EXCEPT ![i] = "settled"]
    /\ done_order' = Append(done_order, i)
    /\ UNCHANGED <<concurrency, op_count, semaphore, sem_waiters, gather_pc,
                   gather_result, remaining>>
    /\ UNCHANGED <<httpVars, bgVars, concVars, pipeVars>>

\* A sem_task that keeps its token when its operation failed.
SemTaskExitLeaksOnError(i) ==
    /\ op_state[i] = "settled"
    /\ semaphore' = IF op_result[i].kind = "value" THEN semaphore + 1 ELSE semaphore
    /\ op_state' = [op_state EXCEPT ![i] = "finished"]
    /\ UNCHANGED <<concurrency, op_count, sem_waiters, op_result, gather_pc,
                   gather_result, remaining, done_order>>
    /\ UNCHANGED <<httpVars, bgVars, concVars, pipeVars>>

\* sem_task(i) leaves `async with semaphore`, releasing its token, and ends.
SemTaskExit(i) ==
    /\ op_state[i] = "settled"
    /\ semaphore' = semaphore + 1
    /\ op_state' = [op_state EXCEPT ![i] = "finished"]
    /\ UNCHANGED <<concurrency, op_count, sem_waiters, op_result, gather_pc,
                   gather_result, remaining, done_order>>
    /\ UNCHANGED <<httpVars, bgVars, concVars, pipeVars>>

(* gather's callback for child i: the first exception of a child is handed *)
(* to the caller at once; when the last child has ended, the caller gets   *)
(* the results; a callback that finds gather done does nothing more.       *)
GatherChildDone(i) ==
    /\ op_state[i] = "finished"
    /\ op_state' = [op_state EXCEPT ![i] = "collected"]
    /\ IF gather_pc # "pending"
       THEN UNCHANGED <<gather_pc, gather_result, remaining>>
       ELSE IF op_result[i].kind = "raise"
       THEN /\ gather_pc' = "raised"
            /\ gather_result' = <<op_result[i].value>>
            /\ UNCHANGED remaining
       ELSE /\ remaining' = remaining - 1
            /\ gather_pc' = IF remaining = 1 THEN "returned" ELSE "pending"
            /\ gather_result' = IF remaining = 1 THEN GatherResults ELSE gather_result
    /\ UNCHANGED <<concurrency, op_count, semaphore, sem_waiters, op_result,
                   done_order>>
    /\ UNCHANGED <<httpVars, bgVars, concVars, pipeVars>>

NextGather ==
    \/ \E k \in 1..MaxConcurrency, n \in 0..MaxOps : GatherWithConcurrency(k, n)
    \/ \E i \in 1..op_count : SemTaskStart(i)
    \/ \E i \in 1..op_count : SemTaskWake(i)
    \/ \E i \in 1..op_count : OpSettle(i)
    \/ \E i \in 1..op_count : SemTaskExit(i)
    \/ \E i \in 1..op_count : GatherChildDone(i)

InitGather ==
    /\ HttpIdle
    /\ BgIdle
    /\ max_workers = 1
    /\ GatherIdle
    /\ ConcIdle
    /\ PipeIdle

SpecGather == InitGather /\ [][NextGather]_vars

(* The steps the event loop takes once the call is made: it runs every     *)
(* sem_task that is ready, and every admitted operation settles.           *)
NextGatherSteps ==
    \/ \E i \in 1..op_count : SemTaskStart(i)
    \/ \E i \in 1..op_count : SemTaskWake(i)
    \/ \E i \in 1..op_count : OpSettle(i)
    \/ \E i \in 1..op_count : SemTaskExit(i)
    \/ \E i \in 1..op_count : GatherChildDone(i)

FairGather == WF_vars(NextGatherSteps)

SpecGatherFair == InitGather /\ [][NextGather]_vars /\ FairGather

----------------------------------------------------------------------------
(* One client instance called by several threads at once: the module-level *)
(* clients are shared by the works given to the background pool.  Each     *)
(* thread runs _rate_limit on its own locals and the shared                *)
(* _last_request_time; there is no lock.                                   *)

\* A thread enters request_with_retries and so _rate_limit.
ThreadRequest(t) ==
    /\ thread[t].pc = "idle"
    /\ calls < MaxCalls
    /\ calls' = calls + 1
    /\ thread' = [thread EXCEPT ![t].pc = "rate_limit"]
    /\ UNCHANGED <<max_retries, retry_delay, last_request_time, now, pc, method,
                   validator, nfail, current_time, attempt, attempts, slept,
                   responses, ret, dispatch, stamps>>
    /\ UNCHANGED <<bgVars, gatherVars, pipeVars>>

\* current_time = time.time(); elapsed = current_time - self._last_request_time
ThreadRateLimitRead(t) ==
    /\ thread[t].pc = "rate_limit"
    /\ thread' = [thread EXCEPT
                    ![t].current_time = now,
                    ![t].elapsed = now - last_request_time,
                    ![t].pc = IF now - last_request_time < min_interval
                              THEN "rl_sleep" ELSE "rl_stamp"]
    /\ UNCHANGED <<httpVars, bgVars, gatherVars, pipeVars>>

\* time.sleep(sleep_time) is called: the thread sleeps until wake, at least.
ThreadSleepStart(t) ==
    /\ thread[t].pc = "rl_sleep"
    /\ thread' = [thread EXCEPT ![t].wake = now + SleepTime(thread[t].elapsed),
                                ![t].pc = "sleeping"]
    /\ UNCHANGED <<httpVars, bgVars, gatherVars, pipeVars>>

\* time.sleep returns.
ThreadSleepEnd(t) ==
    /\ thread[t].pc = "sleeping"
    /\ now >= thread[t].wake
    /\ thread' = [thread EXCEPT ![t].pc = "rl_stamp"]
    /\ UNCHANGED <<httpVars, bgVars, gatherVars, pipeVars>>

(* self._last_request_time = time.time(); dispatch records the timestamp,  *)
(* as it does for a single caller.                                         *)
ThreadRateLimitStamp(t) ==
    /\ thread[t].pc = "rl_stamp"
    /\ last_request_time' = now
    /\ dispatch' = Append(dispatch, now)
    /\ thread' = [thread EXCEPT ![t].pc = "request"]
    /\ UNCHANGED <<max_retries, retry_delay, now, pc, method, validator, nfail,
                   current_time, attempt, attempts, slept, responses, ret,
                   calls, stamps>>
    /\ UNCHANGED <<bgVars, gatherVars, pipeVars>>

\* self.session.request(...): the request goes out, and the call ends.
ThreadDispatch(t) ==
    /\ thread[t].pc = "request"
    /\ thread' = [thread EXCEPT ![t] = IdleThread]
    /\ UNCHANGED <<httpVars, bgVars, gatherVars, pipeVars>>

NextConc ==
    \/ Tick
    \/ \E t \in Threads : ThreadRequest(t)
    \/ \E t \in Threads : ThreadRateLimitRead(t)
    \/ \E t \in Threads : ThreadSleepStart(t)
    \/ \E t \in Threads : ThreadSleepEnd(t)
    \/ \E t \in Threads : ThreadRateLimitStamp(t)
    \/ \E t \in Threads : ThreadDispatch(t)

\* A client just made, and the pool's threads about to call it.
InitConc ==
    /\ HttpIdle
    /\ BgIdle
    /\ GatherIdle
    /\ ConcIdle
    /\ PipeIdle
    /\ max_workers = MaxWorkers

SpecConc == InitConc /\ [][NextConc]_vars

----------------------------------------------------------------------------
(* NewsFetcher.run: the pipeline that fetches the headlines through the    *)
(* client's get(), then filters, saves, summarises and reports.  The       *)
(* request itself is the client's request_with_retries, as above.          *)

\* The articles of a payload the validator accepts; "valid1" carries none.
Articles(body) == IF body = "valid2" THEN <<"a1", "a2">> ELSE <<>>

\* A get_top_headlines that lets a raised terminal failure through.
GetTopHeadlinesPropagates(r) ==
    IF r.kind = "payload"
    THEN [kind |-> "list", value |-> Articles(r.value)]
    ELSE IF r.kind = "raised"
    THEN [kind |-> "raised", value |-> <<>>]
    ELSE [kind |-> "list", value |-> <<>>]

(* get_top_headlines, given how self.get ended: the payload's articles;    *)
(* [] when get raised, and [] when it returned None, as None.get raises    *)
(* AttributeError inside the same try.                                     *)
GetTopHeadlines(r) ==
    IF r.kind = "payload"
    THEN [kind |-> "list", value |-> Articles(r.value)]
    ELSE [kind |-> "list", value |-> <<>>]

Returned(a, s) == [kind |-> "returned", value |-> <<a, s>>]

(* run is called: validate_config, and `return [], []` when it fails; else *)
(* fetch_articles is entered.                                              *)
Run ==
    /\ run_pc \in {"idle", "returned"}
    /\ pc \in {"idle", "done"}
    /\ calls < MaxCalls
    /\ headlines' = NoHeadlines
    /\ articles' = <<>>
    /\ effects' = {}
    /\ run_call' = calls
    /\ \E valid \in BOOLEAN :
        IF valid
        THEN /\ run_pc' = "fetching"
             /\ run_result' = NoRunResult
        ELSE /\ run_pc' = "returned"
             /\ run_result' = Returned(<<>>, <<>>)
    /\ UNCHANGED <<httpVars, bgVars, gatherVars, concVars>>

\* get_top_headlines calls self.get(..., validator=self._validate_news_response).
GetTopHeadlinesCall ==
    /\ run_pc = "fetching"
    /\ calls = run_call
    /\ \E n \in 0..(MaxRetriesBound + 1) : StartRequest("GET", TRUE, n)

\* self.get has ended, and get_top_headlines returns or raises.
GetTopHeadlinesReturn ==
    /\ run_pc = "fetching"
    /\ calls > run_call
    /\ pc = "done"
    /\ headlines' = GetTopHeadlines(ret)
    /\ run_pc' = "fetched"
    /\ UNCHANGED <<run_call, articles, run_result, effects>>
    /\ UNCHANGED <<httpVars, bgVars, gatherVars, concVars>>

(* fetch_articles returns the articles, or [] when get_top_headlines       *)
(* raised; run returns [], [] `if not articles`.                           *)
FetchArticles ==
    /\ run_pc = "fetched"
    /\ articles' = IF headlines.kind = "list" THEN headlines.value ELSE <<>>
    /\ IF articles' = <<>>
       THEN /\ run_pc' = "returned"
            /\ run_result' = Returned(<<>>, <<>>)
       ELSE /\ run_pc' = "filter"
            /\ run_result' = run_result
    /\ UNCHANGED <<run_call, headlines, effects>>
    /\ UNCHANGED <<httpVars, bgVars, gatherVars, concVars>>

\* filter_articles keeps the articles that match a theme, maybe none.
FilterArticles ==
    /\ run_pc = "filter"
    /\ \E kept \in {<<>>, <<articles[1]>>, articles} :
        /\ articles' = kept
        /\ IF kept = <<>>
           THEN /\ run_pc' = "returned"
                /\ run_result' = Returned(<<>>, <<>>)
           ELSE /\ run_pc' = "save"
                /\ run_result' = run_result
    /\ UNCHANGED <<run_call, headlines, effects>>
    /\ UNCHANGED <<httpVars, bgVars, gatherVars, concVars>>

\* save_articles_to_db keeps the articles it could save, maybe none.
SaveArticlesToDb ==
    /\ run_pc = "save"
    /\ effects' = effects \cup {"persist"}
    /\ \E saved \in {<<>>, articles} :
        /\ articles' = saved
        /\ IF saved = <<>>
           THEN /\ run_pc' = "returned"
                /\ run_result' = Returned(<<>>, <<>>)
           ELSE /\ run_pc' = "summarize"
                /\ run_result' = run_result
    /\ UNCHANGED <<run_call, headlines>>
    /\ UNCHANGED <<httpVars, bgVars, gatherVars, concVars>>

\* summaries = [self.summarize_article(article) for article in saved_articles]
SummarizeArticles ==
    /\ run_pc = "summarize"
    /\ effects' = effects \cup {"summarise"}
    /\ run_pc' = "report"
    /\ UNCHANGED <<run_call, headlines, articles, run_result>>
    /\ UNCHANGED <<httpVars, bgVars, gatherVars, concVars>>

(* save_summaries_to_db, save_summaries_to_file, and                       *)
(* `return saved_articles, saved_summaries`.                               *)
SaveSummaries ==
    /\ run_pc = "report"
    /\ effects' = effects \cup {"persist", "report"}
    /\ run_result' = Returned(articles, [i \in 1..Len(articles) |-> "summary"])
    /\ run_pc' = "returned"
    /\ UNCHANGED <<run_call, headlines, articles>>
    /\ UNCHANGED <<httpVars, bgVars, gatherVars, concVars>>

NextHeadlines ==
    \/ Run
    \/ GetTopHeadlinesCall
    \/ Tick
    \/ RateLimitRead
    \/ RateLimitSleep
    \/ RateLimitStamp
    \/ Attempt
    \/ Backoff
    \/ GetTopHeadlinesReturn
    \/ FetchArticles
    \/ FilterArticles
    \/ SaveArticlesToDb
    \/ SummarizeArticles
    \/ SaveSummaries

SpecHeadlines == InitClient /\ [][NextHeadlines]_vars

----------------------------------------------------------------------------
(* Claims about request_with_retries.                                      *)

Done == pc = "done"

\* The sum d * (2^0 + ... + 2^(n-1)) of the first n backoff delays, in ticks.
BackoffSum(n) == retry_delay * (Pow2(n) - 1) * TicksPerSecond

\* The i-th response of the call is a success of the service.
Succeeded(i) ==
    /\ i <= Len(responses)
    /\ responses[i].conn
    /\ responses[i].status = 200
    /\ responses[i].body # "garbage"
    /\ (validator => responses[i].body # "invalid")

(* C1: a call in which every attempt fails raises a terminal failure after *)
(* exactly max_retries + 1 network attempts.                               *)
C1_ExhaustedAfterAllAttempts ==
    (Done /\ nfail > max_retries) =>
        (ret.kind = "raised" /\ attempts = max_retries + 1)

(* C2: when the first max_retries attempts fail and the next one succeeds, *)
(* the call returns the payload of the successful attempt and the backoff  *)
(* sleeps sum to retry_delay * (2^0 + ... + 2^(max_retries-1)).            *)
C2_SuccessAfterRetries ==
    (Done /\ nfail = max_retries) =>
        /\ Succeeded(Len(responses))
        /\ ret = [kind |-> "payload", value |-> responses[Len(responses)].body]
        /\ slept = BackoffSum(max_retries)

(* C3: every call made through get or post ends with a decoded payload     *)
(* that passed validation or with a raised terminal failure, never with    *)
(* None in place of a payload.                                             *)
C3_PayloadOrFailure ==
    (Done /\ method \in {"GET", "POST"}) =>
        \/ ret.kind = "raised"
        \/ /\ ret.kind = "payload"
           /\ ret.value \in Bodies \ {"garbage"}
           /\ (validator => ValidatorAccepts(ret.value))

(* C4: when the first attempt succeeds, the call returns that decoded      *)
(* payload after exactly one network call and no backoff sleep.            *)
C4_FirstAttemptSuccess ==
    (Done /\ Succeeded(1)) =>
        /\ ret = [kind |-> "payload", value |-> responses[1].body]
        /\ attempts = 1
        /\ slept = 0

C4_Witness ==
    /\ Done
    /\ Succeeded(1)
    /\ validator
    /\ max_retries > 0
    /\ ret.kind = "payload"

(* C5: of two calls made one after the other on the client, the second's   *)
(* recorded dispatch timestamp is at least min_interval after the first's. *)
C5_MinIntervalBetweenCalls ==
    \A i \in 1..(Len(dispatch) - 1) :
        dispatch[i + 1] - dispatch[i] >= min_interval

\* The second call arrived early, was blocked, and recorded its timestamp.
C5_Witness ==
    /\ Len(dispatch) = 2
    /\ current_time >= dispatch[1]
    /\ current_time - dispatch[1] < min_interval
    /\ current_time - dispatch[1] > 0

LastFailure == TryBlock(responses[Len(responses)], validator)

\* The three failure kinds, by the exceptions standing for them.
FailureKinds ==
    [NetworkFailure |-> {"RequestException", "HTTPError"},
     DecodeFailure |-> {"JSONDecodeError"},
     ValidationFailure |-> {"ValueError"}]

(* C24: after a failed attempt the next step is the same for a network     *)
(* failure, an undecodable body and a validator rejection: the backoff     *)
(* sleep of the attempt's index when attempts remain, a raised terminal    *)
(* failure with no sleep when none remain.                                 *)
C24_FailureKindsAlike ==
    \A k \in DOMAIN FailureKinds :
        (/\ pc \in {"backoff", "done"}
         /\ Len(responses) >= 1
         /\ LastFailure \in FailureKinds[k])
        => IF AttemptsRemain(attempt)
           THEN \/ pc = "backoff" /\ ret = NoRet
                \/ /\ pc = "done"
                   /\ ret.kind = "returned_none"
                   /\ slept = BackoffDelay(attempt)
           ELSE /\ pc = "done"
                /\ ret = [kind |-> "raised", value |-> LastFailure]
                /\ slept = 0

\* A validator rejection is followed by the backoff sleep.
C24_Witness ==
    /\ pc = "backoff"
    /\ Len(responses) >= 1
    /\ LastFailure = "ValueError"

\* d doubled i times.
RECURSIVE Doubled(_, _)
Doubled(d, i) == IF i = 0 THEN d ELSE 2 * Doubled(d, i - 1)

\* The delays d, 2d, 4d, ... in ticks, for every index the loop can have.
DelaysDouble ==
    \A i \in 0..MaxRetriesBound :
        BackoffDelay(i) = Doubled(retry_delay * TicksPerSecond, i)

(* C27: the backoff sleep after a failed attempt of index i, when attempts *)
(* remain, is retry_delay * 2^i; the step that raises the terminal failure *)
(* sleeps nothing, and with max_retries = 0 a failing call raises without  *)
(* having slept.                                                           *)
C27_BackoffDoubles ==
    /\ [](/\ DelaysDouble
          /\ (Done /\ ret.kind = "returned_none") =>
                /\ AttemptsRemain(attempt)
                /\ slept = Doubled(retry_delay * TicksPerSecond, attempt)
          /\ (Done /\ max_retries = 0 /\ nfail >= 1) =>
                (ret.kind = "raised" /\ slept = 0))
    /\ [][(ret'.kind = "raised" /\ ret.kind # "raised") =>
            (slept' = slept /\ now' = now)]_vars

\* A failed first attempt was followed by a sleep of retry_delay = 2 seconds.
C27_Witness ==
    /\ Done
    /\ ret.kind = "returned_none"
    /\ retry_delay = 2
    /\ attempt = 0
    /\ slept = 2 * TicksPerSecond

----------------------------------------------------------------------------
(* Claims about BackgroundTaskProcessor.                                   *)

NoDup(q) == \A i, j \in 1..Len(q) : i # j => q[i] # q[j]

\* A call of caller c has ended, and op names the call.
Ended(c, o) == caller[c].pc = "done" /\ caller[c].op = o

\* The outcome of the work submitted as task id.
WorkOutcome(id) == futures[tasks[id].future].outcome

(* C6: whatever the interleaving of the submitting threads, no id is read  *)
(* from the counter twice, the ids returned are pairwise distinct, and an  *)
(* id returned by a call is larger than every id returned before that call *)
(* began.                                                                  *)
C6_DistinctIncreasingIds ==
    /\ NoDup(allocated)
    /\ NoDup(returned)
    /\ \A c \in Callers : Ended(c, "submit") => caller[c].task_id > caller[c].floor

\* Two submit_task calls overlap, both past the locked block, holding
\* different ids.
C6_Witness ==
    /\ \A c \in Callers : caller[c].pc \in {"s_exec", "s_store", "s_addcb"}
    /\ caller["c1"].task_id # caller["c2"].task_id

\* A task's status changes only from running to completed or failed.
StatusChangesOnce ==
    \A t \in DOMAIN tasks :
        tasks'[t].status # tasks[t].status =>
            (tasks[t].status = "running" /\ tasks'[t].status \in Terminal)

\* A new task record starts as running.
StartsRunning ==
    \A t \in (DOMAIN tasks') \ (DOMAIN tasks) : tasks'[t].status = "running"

(* A snapshot taken by a call that began after a terminal status had been  *)
(* reported for the task shows that same status.                           *)
SnapshotsAgree ==
    \A c \in Callers :
        (caller[c].prior \in Terminal /\ caller[c].pc \in {"g_result", "g_error", "done"})
            => caller[c].snap.status = caller[c].prior

(* C7: a task's status starts as running and changes at most once, to      *)
(* completed or failed; once a snapshot has shown a terminal status, every *)
(* later snapshot of the task shows the same status.                       *)
C7_StatusMonotone ==
    /\ []SnapshotsAgree
    /\ [][StatusChangesOnce /\ StartsRunning]_vars

\* A second snapshot of a task was taken after a first one showed it terminal.
C7_Witness ==
    /\ Ended(Observer, "get_status")
    /\ caller[Observer].kind = "snapshot"
    /\ caller[Observer].prior \in Terminal
    /\ caller[Observer].snap.status = caller[Observer].prior

(* C8: every snapshot get_task_status returns is consistent: its result is *)
(* non-null only if its status is completed, its error non-null only if    *)
(* its status is failed.                                                   *)
C8_ConsistentSnapshot ==
    \A c \in Callers :
        (caller[c].pc = "done" /\ caller[c].kind = "snapshot") =>
            /\ (caller[c].snap.result # "None" => caller[c].snap.status = "completed")
            /\ (caller[c].snap.error # "None" => caller[c].snap.status = "failed")

(* C9: a snapshot returned by wait_for_task has a terminal status, never   *)
(* running.                                                                *)
C9_WaitReturnsTerminal ==
    \A c \in Callers :
        (Ended(c, "wait") /\ caller[c].kind = "snapshot") =>
            caller[c].snap.status \in Terminal

(* C10: wait_for_task never raises the work's own exception; a wait with   *)
(* no timeout on a task whose work raised returns a snapshot with status   *)
(* failed and the error's description.                                     *)
C10_WorkFailureCaptured ==
    \A c \in Callers :
        Ended(c, "wait") =>
            /\ caller[c].kind # "WorkException"
            /\ (/\ ~caller[c].timed
                /\ caller[c].kind # "NotFound"
                /\ WorkOutcome(caller[c].task_id).kind = "raise")
               => /\ caller[c].kind = "snapshot"
                  /\ caller[c].snap.status = "failed"
                  /\ caller[c].snap.error = Str(WorkOutcome(caller[c].task_id).value)


\* The ids submit_task can issue within the bound.
TaskIds == 0..(MaxTasks - 1)

\* The ids submit_task can issue under fair scheduling.
LiveTaskIds == 0..(MaxLiveTasks - 1)

\* Task id has a record whose status is terminal.
IsTerminal(id) == id \in DOMAIN tasks /\ tasks[id].status \in Terminal

\* A wait of caller c ends in this step because its timeout elapsed.
TimesOut(c) ==
    /\ caller[c].pc = "w_result"
    /\ caller'[c].pc = "done"
    /\ futures[caller[c].future].state # "FINISHED"

(* A wait that times out fails with DeadlineExceeded, and the step changes *)
(* neither the task records, nor the futures, nor the pool's queue.        *)
TimeoutOnlyObserves ==
    \A c \in Callers :
        TimesOut(c) =>
            /\ caller'[c].kind = "DeadlineExceeded"
            /\ UNCHANGED <<tasks, futures, work_queue, task_counter>>

\* After a wait on task id failed with DeadlineExceeded, the task ends.
TimedOutTaskEnds ==
    \A id \in LiveTaskIds :
        (/\ Ended(Observer, "wait")
         /\ caller[Observer].kind = "DeadlineExceeded"
         /\ caller[Observer].task_id = id) ~> IsTerminal(id)

\* A get_task_status that reads a terminal task returns a terminal snapshot.
TerminalIsReported ==
    \A id \in LiveTaskIds :
        (/\ caller[Observer].pc = "g_status"
         /\ caller[Observer].task_id = id
         /\ IsTerminal(id))
        ~> (/\ caller[Observer].pc = "done"
            /\ caller[Observer].kind = "snapshot"
            /\ caller[Observer].snap.task_id = id
            /\ caller[Observer].snap.status \in Terminal)

ResultXorError ==
    \A t \in DOMAIN tasks : tasks[t].result = "None" \/ tasks[t].error = "None"

\* The record of task id shows the outcome o of its work.
Records(id, o) ==
    /\ id \in DOMAIN tasks
    /\ tasks[id] = IF o.kind = "value"
                   THEN [future |-> tasks[id].future, status |-> "completed",
                         result |-> o.value, error |-> "None"]
                   ELSE [future |-> tasks[id].future, status |-> "failed",
                         result |-> "None", error |-> Str(o.value)]

CallsWithUnissuedId(c) ==
    /\ caller[c].pc \in {"idle", "done"}
    /\ caller'[c] # caller[c]
    /\ caller'[c].op \in {"get_status", "wait"}
    /\ caller'[c].task_id \notin Range(allocated)

(* C13: get_task_status and wait_for_task called with an id that was never *)
(* issued fail with NotFound at once, and the step changes neither the     *)
(* task table, nor the counter, nor any future or queued work.             *)
C13_UnknownIdNotFound ==
    [][\A c \in Callers :
         CallsWithUnissuedId(c) =>
             /\ caller'[c].pc = "done"
             /\ caller'[c].kind = "NotFound"
             /\ UNCHANGED <<tasks, task_counter, futures, work_queue, allocated>>]_vars

\* A wait on an id never issued failed with NotFound while tasks exist.
C13_Witness ==
    /\ Ended(Observer, "wait")
    /\ caller[Observer].kind = "NotFound"
    /\ caller[Observer].task_id \notin Range(allocated)
    /\ DOMAIN tasks # {}

\* The lock is held only by a thread inside the read-and-increment block.
LockHeldOnlyInBlock ==
    lock # "free" => caller[lock].pc \in {"s_read", "s_incr"}

\* Caller c is inside submit_task.
Submitting(c) == caller[c].op = "submit" /\ caller[c].pc # "done"

ShutsDownWithoutWait(c) ==
    /\ caller[c].pc \in {"idle", "done"}
    /\ caller'[c] # caller[c]
    /\ caller'[c].op = "shutdown"
    /\ ~caller'[c].wait

C17_RejectedSubmitChangesNothing ==
    (caller[Submitter].op = "submit" /\ caller[Submitter].down) =>
        /\ caller[Submitter].pc = "done" => caller[Submitter].kind = "RuntimeError"
        /\ Range(allocated) = DOMAIN tasks
        /\ task_counter = Cardinality(DOMAIN tasks)
        /\ Len(futures) = Cardinality(DOMAIN tasks)

\* The futures whose work a pool thread has started and not yet ended.
Executing == {f \in 1..Len(futures) : futures[f].state = "RUNNING"}

\* The futures a pool thread is occupied with: taken and not yet let go.
Occupied == {f \in 1..Len(futures) : futures[f].wpc \notin {"queued", "released"}}

\* The futures whose work item waits in the queue.
Held == {f \in 1..Len(futures) : futures[f].wpc = "queued"}

\* A task whose work has not started is reported as running.
HeldReportedRunning ==
    \A t \in DOMAIN tasks :
        tasks[t].future \in Held => tasks[t].status = "running"

\* A work starts only in a step that finds a pool thread free.
StartsOnFreeWorker ==
    \A f \in 1..Len(futures) :
        (futures[f].wpc = "queued" /\ futures'[f].wpc # "queued")
            => Cardinality(Occupied) < max_workers

(* C23: at every moment at most max_workers works are executing; a task    *)
(* submitted while all workers are busy is held, reported as running, and  *)
(* its work starts only when a worker is free.                             *)
C23_AtMostMaxWorkersExecuting ==
    /\ [](/\ Cardinality(Executing) <= max_workers
          /\ Cardinality(Occupied) <= max_workers
          /\ HeldReportedRunning)
    /\ [][StartsOnFreeWorker]_vars

(* The one worker of the pool is executing a work while a second task is   *)
(* held, and that task reads as running.                                   *)
C23_Witness ==
    /\ max_workers = 1
    /\ Cardinality(Executing) = 1
    /\ \E t \in DOMAIN tasks :
        /\ tasks[t].future \in Held
        /\ tasks[t].status = "running"

\* The step is one of the completion hook of task t.
HookStep(t) ==
    \/ \E f \in 1..Len(futures) :
        /\ futures[f].callback = t
        /\ futures[f].wpc \in {"callbacks", "callback"}
        /\ futures'[f] # futures[f]
    \/ \E c \in Callers :
        /\ caller[c].op = "submit"
        /\ caller[c].task_id = t
        /\ caller[c].pc \in {"s_addcb", "s_callback"}
        /\ caller'[c] # caller[c]

\* An existing task's record changes only in a step of its one hook run.
OnlyHookWrites ==
    \A t \in DOMAIN tasks :
        tasks'[t] # tasks[t] =>
            /\ HookStep(t)
            /\ hook_runs'[t] = 1
            /\ tasks'[t].future = tasks[t].future

(* A step of get_task_status, wait_for_task or shutdown changes no task,   *)
(* and a step of submit_task changes no task but the one it submits.       *)
OtherOperationsLeaveTasks ==
    \A c \in Callers :
        caller'[c] # caller[c] =>
            /\ caller'[c].op \in {"get_status", "wait", "shutdown"} => tasks' = tasks
            /\ caller'[c].op = "submit" =>
                \A t \in DOMAIN tasks :
                    t # caller'[c].task_id => tasks'[t] = tasks[t]

C26_OutcomeBeforeStatus ==
    \A c \in Callers :
        (caller[c].pc = "done" /\ caller[c].kind = "snapshot") =>
            /\ caller[c].snap.status = "completed" =>
                /\ WorkOutcome(caller[c].task_id).kind = "value"
                /\ caller[c].snap.result = WorkOutcome(caller[c].task_id).value
            /\ caller[c].snap.status = "failed" =>
                /\ WorkOutcome(caller[c].task_id).kind = "raise"
                /\ caller[c].snap.error = Str(WorkOutcome(caller[c].task_id).value)

(* A snapshot reports completed with the value the work returned while a   *)
(* pool thread is in the middle of a run of the hook.                      *)
C26_Witness ==
    /\ Ended(Observer, "get_status")
    /\ caller[Observer].kind = "snapshot"
    /\ caller[Observer].snap.status = "completed"
    /\ caller[Observer].snap.result = "r1"
    /\ \E f \in 1..Len(futures) : futures[f].wpc = "callback"

(* C30: a wait with no timeout never fails with DeadlineExceeded, whatever *)
(* the work returned or raised.                                            *)
C30_DeadlineOnlyOnTimeout ==
    \A c \in Callers :
        (Ended(c, "wait") /\ ~caller[c].timed) =>
            caller[c].kind # "DeadlineExceeded"

----------------------------------------------------------------------------
(* Claims about gather_with_concurrency.                                   *)

(* C18: for every number of operations and every concurrency K >= 1, at    *)
(* most K operations are admitted and not ended at any time; the tokens    *)
(* held and the tokens free always add up to K, and a sem_task that holds  *)
(* no token is suspended or not started.                                   *)
C18_AtMostKInFlight ==
    gather_pc # "idle" =>
        /\ Cardinality(InFlight) <= concurrency
        /\ semaphore >= 0
        /\ Cardinality(Holding) + semaphore = concurrency
        /\ \A i \in 1..Len(sem_waiters) : op_state[sem_waiters[i]] = "waiting"

\* K operations are in flight and another is suspended, waiting for a token.
C18_Witness ==
    /\ gather_pc = "pending"
    /\ Cardinality(InFlight) = concurrency
    /\ sem_waiters # <<>>

\* The operations ended in the order they were given.
EndedInOrder == \A k \in 1..Len(done_order) : done_order[k] = k

(* C19: when every operation succeeds, gather returns as many results as   *)
(* it was given operations, the i-th being the value of the i-th           *)
(* operation, in whatever order the operations ended.                      *)
C19_ResultsInSubmissionOrder ==
    gather_pc = "returned" =>
        /\ Len(gather_result) = op_count
        /\ \A i \in 1..op_count : gather_result[i] = OpValue(i)

\* gather returned the results of operations that ended out of order.
C19_Witness ==
    /\ gather_pc = "returned"
    /\ op_count >= 2
    /\ ~EndedInOrder

(* C20: in the step in which gather hands a failure to its caller, no      *)
(* operation of the batch is admitted and not ended.                       *)
C20_FailureAfterDrain ==
    [][(gather_pc # "raised" /\ gather_pc' = "raised") => InFlight' = {}]_vars

\* Every operation of the batch was admitted and has settled.
AllSettled == \A i \in 1..op_count : op_result[i] # NoOpResult

\* Every sem_task of the batch has left `async with semaphore`.
AllExited == \A i \in 1..op_count : op_state[i] \in {"finished", "collected"}

\* A sem_task that leaves after its operation settled gives one token back.
TokenBackOnExit ==
    \A i \in 1..op_count :
        (op_state[i] = "settled" /\ op_state'[i] # "settled")
            => semaphore' = semaphore + 1

(* C28: every operation gives its token back when it has settled, with a   *)
(* value or with an exception; when each admitted operation settles, every *)
(* operation of the batch is eventually admitted, and once all have        *)
(* settled and left the free tokens are K again.                           *)
C28_TokensReturned ==
    /\ [][TokenBackOnExit]_vars
    /\ [](AllExited /\ gather_pc # "idle" => semaphore = concurrency)
    /\ (gather_pc # "idle") ~> (AllSettled /\ AllExited /\ semaphore = concurrency)

(* A batch larger than K in which an operation failed has all settled and  *)
(* the K tokens are free.                                                  *)
C28_Witness ==
    /\ gather_pc # "idle"
    /\ op_count > concurrency
    /\ \E i \in 1..op_count : op_result[i].kind = "raise"
    /\ AllSettled
    /\ AllExited
    /\ semaphore = concurrency

----------------------------------------------------------------------------
(* Claims about a client shared by several threads.                        *)

(* C22: whatever the interleaving of the threads' rate-limit steps, no two *)
(* dispatches of the one client, each at the timestamp its caller          *)
(* recorded, are less than min_interval apart.                             *)
C22_MinIntervalAcrossThreads ==
    \A i, j \in 1..Len(dispatch) :
        i < j => dispatch[j] - dispatch[i] >= min_interval

----------------------------------------------------------------------------
(* Claims about the headline pipeline.                                     *)

\* The run's request has ended without a payload: raised, or None returned.
RequestFailed ==
    /\ calls > run_call
    /\ pc = "done"
    /\ ret.kind \in {"raised", "returned_none"}

====
